---- MODULE Spec2Model ----
(***************************************************************************)
(* Topology aggregation of backend/server.py (aggregate_packet,            *)
(* get_topology, get_stats under topology_lock) and the stand-alone        *)
(* aggregate_packet of backend/monitor.py.                                 *)
(***************************************************************************)
EXTENDS Integers, Sequences, FiniteSets, TLC

\* ---------------------------------------------------------------- bounds
NumIngest == 2      \* threads calling server.aggregate_packet
NumSnap == 1        \* request threads in get_topology
NumStats == 1       \* request threads in get_stats
MaxIngests == 2     \* aggregate_packet calls started over a behaviour

\* ------------------------------------------------------- program constants
STALE_THRESHOLD == 30

Hosts == {"A", "B"}
\* time.time() values and packet timestamps: differences 0, 1, 30, 31 either way
Times == {0, STALE_THRESHOLD, STALE_THRESHOLD + 1}

Ingesters == 1..NumIngest
Snapshotters == 1..NumSnap
StatsCallers == 1..NumStats

NoPacket == [src_ip |-> "-", dst_ip |-> "-", timestamp |-> -1]
Packets == [src_ip : Hosts, dst_ip : Hosts, timestamp : Times]
NoTime == -1

\* a key the dict handed to aggregate_packet does not have
NoKey == "<no key>"

\* packet dicts lacking 'src_ip', 'dst_ip' or 'timestamp'
Incomplete ==
  {[src_ip |-> NoKey, dst_ip |-> "B", timestamp |-> 0],
   [src_ip |-> "A", dst_ip |-> NoKey, timestamp |-> 0],
   [src_ip |-> "A", dst_ip |-> "B", timestamp |-> NoTime]}

\* server.py:32-33, the three subscripts find their keys
HasKeys(pk) == pk.src_ip # NoKey /\ pk.dst_ip # NoKey /\ pk.timestamp # NoTime

VARIABLES
  nodes,            \* topology['nodes']: host -> [first_seen, last_seen, packet_count]
  edges,            \* topology['edges']: <<src, dst>> -> [count, last_active]
  topology_lock,    \* TRUE while the threading.Lock is held
  ipc, packet,      \* aggregate_packet: position and argument of each caller
  spc, snow, active_nodes, active_edges,   \* get_topology locals
  tpc, tnow, total_nodes, active_connections, total_packets,  \* get_stats locals
  program,          \* which script the process runs: "server" or "monitor"
  log,              \* history: packets of the aggregate_packet calls that released the lock
  startLen,         \* history: Len(log) when a get_topology call began
  m_nodes, m_edges, m_lock, m_pc, m_packet  \* monitor.py: its own topology, lock and caller

srvVars == <<nodes, edges, topology_lock>>
ingVars == <<ipc, packet>>
snapVars == <<spc, snow, active_nodes, active_edges, startLen>>
statVars == <<tpc, tnow, total_nodes, active_connections, total_packets>>
monVars == <<m_nodes, m_edges, m_lock, m_pc, m_packet>>
vars == <<program, srvVars, ingVars, snapVars, statVars, log, monVars>>

\* ------------------------------------------------------ aggregate_packet
\* a node created already counting one packet
NewNodeCountsOne(now) == [first_seen |-> now, last_seen |-> now, packet_count |-> 1]

\* server.py:37
NewNode(now) == [first_seen |-> now, last_seen |-> now, packet_count |-> 0]

\* last_seen left as it was when the node was created
KeepLastSeen(n, now) == n

\* the timestamp written to first_seen instead of last_seen
SetFirstSeen(n, now) == [n EXCEPT !.first_seen = now]

\* server.py:38
SetLastSeen(n, now) == [n EXCEPT !.last_seen = now]

\* the increment applied twice
IncPacketCountTwice(n) == [n EXCEPT !.packet_count = @ + 2]

\* server.py:39
IncPacketCount(n) == [n EXCEPT !.packet_count = @ + 1]

\* server.py:36-39, one iteration of the loop over [src, dst]
NodeUpdate(ns, ip, now) ==
  LET base == IF ip \in DOMAIN ns THEN ns ELSE (ip :> NewNode(now)) @@ ns
  IN [base EXCEPT ![ip] = IncPacketCount(SetLastSeen(@, now))]

\* a factory whose entries start at one
EdgeDefaultCountsOne == [count |-> 1, last_active |-> 0]

\* server.py:15, the defaultdict factory
EdgeDefault == [count |-> 0, last_active |-> 0]

\* the edge key built with the two hosts the other way round
EdgeKeyReversed(src, dst) == <<dst, src>>

\* server.py:41
EdgeKey(src, dst) == <<src, dst>>

\* defaultdict.__getitem__: a missing key is inserted with the factory's value
EdgeGet(es, k) == IF k \in DOMAIN es THEN es ELSE (k :> EdgeDefault) @@ es

\* the edge count assigned instead of incremented
SetEdgeCountOne(es, k) == [EdgeGet(es, k) EXCEPT ![k].count = 1]

\* server.py:42
IncEdgeCount(es, k) == [EdgeGet(es, k) EXCEPT ![k].count = @ + 1]

\* server.py:43
SetLastActive(es, k, now) == [EdgeGet(es, k) EXCEPT ![k].last_active = now]

InFlight == {p \in Ingesters : ipc[p] # "idle"}

\* server.py:30, a caller enters aggregate_packet with a parsed packet
IngestCall(p) ==
  /\ program = "server"
  /\ ipc[p] = "idle"
  /\ Len(log) + Cardinality(InFlight) < MaxIngests
  /\ \E pk \in Packets \cup Incomplete : packet' = [packet EXCEPT ![p] = pk]
  /\ ipc' = [ipc EXCEPT ![p] = "lock"]
  /\ UNCHANGED <<program, srvVars, snapVars, statVars, log, monVars>>

\* server.py:31, with topology_lock: blocks until the lock is free
IngestAcquire(p) ==
  /\ program = "server"
  /\ ipc[p] = "lock"
  /\ topology_lock = FALSE
  /\ topology_lock' = TRUE
  /\ ipc' = [ipc EXCEPT ![p] = "read"]
  /\ UNCHANGED <<program, nodes, edges, packet, snapVars, statVars, log, monVars>>

\* the KeyError of a missing key leaving the lock held on the way out
IngestReadKeepingLock(p) ==
  /\ program = "server"
  /\ ipc[p] = "read"
  /\ ipc' = [ipc EXCEPT ![p] = IF HasKeys(packet[p]) THEN "src" ELSE "failed"]
  /\ UNCHANGED <<program, srvVars, packet, snapVars, statVars, log, monVars>>

\* server.py:32-33, src, dst and now are read from the packet; a missing key
\* raises KeyError, which leaves the with block (the lock is released) before
\* line 35 is reached
IngestRead(p) ==
  /\ program = "server"
  /\ ipc[p] = "read"
  /\ IF HasKeys(packet[p])
       THEN /\ ipc' = [ipc EXCEPT ![p] = "src"]
            /\ UNCHANGED topology_lock
       ELSE /\ ipc' = [ipc EXCEPT ![p] = "failed"]
            /\ topology_lock' = FALSE
  /\ UNCHANGED <<program, nodes, edges, packet, snapVars, statVars, log, monVars>>

\* the KeyError has reached the caller of aggregate_packet; the call is over
IngestFailed(p) ==
  /\ program = "server"
  /\ ipc[p] = "failed"
  /\ ipc' = [ipc EXCEPT ![p] = "idle"]
  /\ packet' = [packet EXCEPT ![p] = NoPacket]
  /\ UNCHANGED <<program, srvVars, snapVars, statVars, log, monVars>>

\* server.py:35-39, iteration ip = src
IngestSrc(p) ==
  /\ program = "server"
  /\ ipc[p] = "src"
  /\ nodes' = NodeUpdate(nodes, packet[p].src_ip, packet[p].timestamp)
  /\ ipc' = [ipc EXCEPT ![p] = "dst"]
  /\ UNCHANGED <<program, edges, topology_lock, packet, snapVars, statVars, log, monVars>>

\* the loop running over [src] only: the destination is never recorded
IngestDstSkipped(p) ==
  /\ program = "server"
  /\ ipc[p] = "dst"
  /\ ipc' = [ipc EXCEPT ![p] = "count"]
  /\ UNCHANGED <<program, srvVars, packet, snapVars, statVars, log, monVars>>

\* the loop running over the set {src, dst}: a self-loop is counted once
IngestDstDistinct(p) ==
  /\ program = "server"
  /\ ipc[p] = "dst"
  /\ nodes' = IF packet[p].dst_ip = packet[p].src_ip THEN nodes
              ELSE NodeUpdate(nodes, packet[p].dst_ip, packet[p].timestamp)
  /\ ipc' = [ipc EXCEPT ![p] = "count"]
  /\ UNCHANGED <<program, edges, topology_lock, packet, snapVars, statVars, log, monVars>>

\* server.py:35-39, iteration ip = dst
IngestDst(p) ==
  /\ program = "server"
  /\ ipc[p] = "dst"
  /\ nodes' = NodeUpdate(nodes, packet[p].dst_ip, packet[p].timestamp)
  /\ ipc' = [ipc EXCEPT ![p] = "count"]
  /\ UNCHANGED <<program, edges, topology_lock, packet, snapVars, statVars, log, monVars>>

\* server.py:41-42
IngestEdgeCount(p) ==
  /\ program = "server"
  /\ ipc[p] = "count"
  /\ edges' = IncEdgeCount(edges, EdgeKey(packet[p].src_ip, packet[p].dst_ip))
  /\ ipc' = [ipc EXCEPT ![p] = "active"]
  /\ UNCHANGED <<program, nodes, topology_lock, packet, snapVars, statVars, log, monVars>>

\* server.py:43
IngestEdgeActive(p) ==
  /\ program = "server"
  /\ ipc[p] = "active"
  /\ edges' = SetLastActive(edges, EdgeKey(packet[p].src_ip, packet[p].dst_ip),
                            packet[p].timestamp)
  /\ ipc' = [ipc EXCEPT ![p] = "unlock"]
  /\ UNCHANGED <<program, nodes, topology_lock, packet, snapVars, statVars, log, monVars>>

\* server.py:31, leaving the with block releases the lock; the call returns
IngestRelease(p) ==
  /\ program = "server"
  /\ ipc[p] = "unlock"
  /\ topology_lock' = FALSE
  /\ log' = Append(log, packet[p])
  /\ packet' = [packet EXCEPT ![p] = NoPacket]
  /\ ipc' = [ipc EXCEPT ![p] = "idle"]
  /\ UNCHANGED <<program, nodes, edges, snapVars, statVars, monVars>>

\* ---------------------------------------------------------- get_topology
\* the staleness test with the boundary included
IsActiveInclusive(now, seen) == now - seen <= STALE_THRESHOLD

\* server.py:66, 71, 81
IsActive(now, seen) == now - seen < STALE_THRESHOLD

\* server.py:64, 66: the keys get_topology subscripts in a node
SnapNodeKeys == {"packet_count", "last_seen"}

\* server.py:69, 71: the keys get_topology subscripts in an edge
SnapEdgeKeys == {"count", "last_active"}

\* server.py:81: the key get_stats subscripts in an edge
StatsEdgeKeys == {"last_active"}

\* the node key of monitor.py:36-38, which no node of server.py has
StatsNodeKeysOfMonitor == {"count"}

\* server.py:82: the key get_stats subscripts in a node
StatsNodeKeys == {"packet_count"}

\* every entry of mapping m has the keys ks: subscripting them raises no KeyError
HaveKeys(m, ks) == \A x \in DOMAIN m : ks \subseteq DOMAIN m[x]

\* whether an iteration over the mappings is cut short by "dictionary changed
\* size during iteration": possible only while another thread is applying a
\* packet, which the lock rules out; then either outcome may occur
Raced == {FALSE} \cup {\E q \in Ingesters : ipc[q] \in {"src", "dst", "count", "active"}}

\* server.py:63-67
ActiveNodes(ns, now) ==
  {[ip |-> h, packets |-> ns[h].packet_count] :
     h \in {x \in DOMAIN ns : IsActive(now, ns[x].last_seen)}}

\* server.py:68-72
ActiveEdges(es, now) ==
  {[source |-> k[1], target |-> k[2], weight |-> es[k].count] :
     k \in {x \in DOMAIN es : IsActive(now, es[x].last_active)}}

\* server.py:60-61, now = time.time()
SnapCall(p) ==
  /\ program = "server"
  /\ spc[p] = "idle"
  /\ \E t \in Times : snow' = [snow EXCEPT ![p] = t]
  /\ startLen' = [startLen EXCEPT ![p] = Len(log)]
  /\ spc' = [spc EXCEPT ![p] = "lock"]
  /\ UNCHANGED <<program, srvVars, ingVars, active_nodes, active_edges, statVars, log, monVars>>

\* get_topology entering its block without waiting for the lock
SnapAcquireNoWait(p) ==
  /\ program = "server"
  /\ spc[p] = "lock"
  /\ topology_lock' = TRUE
  /\ spc' = [spc EXCEPT ![p] = "nodes"]
  /\ UNCHANGED <<program, nodes, edges, ingVars, snow, active_nodes, active_edges, startLen,
                 statVars, log, monVars>>

\* server.py:62
SnapAcquire(p) ==
  /\ program = "server"
  /\ spc[p] = "lock"
  /\ topology_lock = FALSE
  /\ topology_lock' = TRUE
  /\ spc' = [spc EXCEPT ![p] = "nodes"]
  /\ UNCHANGED <<program, nodes, edges, ingVars, snow, active_nodes, active_edges, startLen,
                 statVars, log, monVars>>

\* get_topology dropping the nodes it finds stale while it lists the others
SnapNodesEvicting(p) ==
  /\ program = "server"
  /\ spc[p] = "nodes"
  /\ active_nodes' = [active_nodes EXCEPT ![p] = ActiveNodes(nodes, snow[p])]
  /\ nodes' = [h \in {x \in DOMAIN nodes : IsActive(snow[p], nodes[x].last_seen)} |-> nodes[h]]
  /\ spc' = [spc EXCEPT ![p] = "edges"]
  /\ UNCHANGED <<program, edges, topology_lock, ingVars, snow, active_edges, startLen,
                 statVars, log, monVars>>

\* server.py:63-67; an exception leaves the with block, releasing the lock
SnapNodes(p) ==
  /\ program = "server"
  /\ spc[p] = "nodes"
  /\ \E raced \in Raced :
       IF raced \/ ~HaveKeys(nodes, SnapNodeKeys)
         THEN /\ spc' = [spc EXCEPT ![p] = "error"]
              /\ topology_lock' = FALSE
              /\ UNCHANGED active_nodes
         ELSE /\ active_nodes' = [active_nodes EXCEPT ![p] = ActiveNodes(nodes, snow[p])]
              /\ spc' = [spc EXCEPT ![p] = "edges"]
              /\ UNCHANGED topology_lock
  /\ UNCHANGED <<program, nodes, edges, ingVars, snow, active_edges, startLen, statVars,
                 log, monVars>>

\* get_topology dropping the edges it finds stale while it lists the others
SnapEdgesEvicting(p) ==
  /\ program = "server"
  /\ spc[p] = "edges"
  /\ active_edges' = [active_edges EXCEPT ![p] = ActiveEdges(edges, snow[p])]
  /\ edges' = [k \in {x \in DOMAIN edges : IsActive(snow[p], edges[x].last_active)} |-> edges[k]]
  /\ spc' = [spc EXCEPT ![p] = "unlock"]
  /\ UNCHANGED <<program, nodes, topology_lock, ingVars, snow, active_nodes, startLen,
                 statVars, log, monVars>>

\* server.py:68-72; an exception leaves the with block, releasing the lock
SnapEdges(p) ==
  /\ program = "server"
  /\ spc[p] = "edges"
  /\ \E raced \in Raced :
       IF raced \/ ~HaveKeys(edges, SnapEdgeKeys)
         THEN /\ spc' = [spc EXCEPT ![p] = "error"]
              /\ topology_lock' = FALSE
              /\ UNCHANGED active_edges
         ELSE /\ active_edges' = [active_edges EXCEPT ![p] = ActiveEdges(edges, snow[p])]
              /\ spc' = [spc EXCEPT ![p] = "unlock"]
              /\ UNCHANGED topology_lock
  /\ UNCHANGED <<program, nodes, edges, ingVars, snow, active_nodes, startLen, statVars,
                 log, monVars>>

\* a with block that forgets to release the lock on the way out
SnapReleaseKeepingLock(p) ==
  /\ program = "server"
  /\ spc[p] = "unlock"
  /\ spc' = [spc EXCEPT ![p] = "return"]
  /\ UNCHANGED <<program, srvVars, ingVars, snow, active_nodes, active_edges, startLen,
                 statVars, log, monVars>>

\* server.py:62, end of the with block
SnapRelease(p) ==
  /\ program = "server"
  /\ spc[p] = "unlock"
  /\ topology_lock' = FALSE
  /\ spc' = [spc EXCEPT ![p] = "return"]
  /\ UNCHANGED <<program, nodes, edges, ingVars, snow, active_nodes, active_edges, startLen,
                 statVars, log, monVars>>

\* server.py:73, the response (or the exception, as a 500) is handed to the
\* client and the locals die
SnapReturn(p) ==
  /\ program = "server"
  /\ spc[p] \in {"return", "error"}
  /\ spc' = [spc EXCEPT ![p] = "idle"]
  /\ snow' = [snow EXCEPT ![p] = NoTime]
  /\ active_nodes' = [active_nodes EXCEPT ![p] = {}]
  /\ active_edges' = [active_edges EXCEPT ![p] = {}]
  /\ startLen' = [startLen EXCEPT ![p] = 0]
  /\ UNCHANGED <<program, srvVars, ingVars, statVars, log, monVars>>

\* ------------------------------------------------------------- get_stats
RECURSIVE SumPackets(_, _)
\* server.py:82
SumPackets(ns, hs) ==
  IF hs = {} THEN 0
  ELSE LET h == CHOOSE x \in hs : TRUE
       IN ns[h].packet_count + SumPackets(ns, hs \ {h})

\* server.py:77-78
StatsCall(p) ==
  /\ program = "server"
  /\ tpc[p] = "idle"
  /\ \E t \in Times : tnow' = [tnow EXCEPT ![p] = t]
  /\ tpc' = [tpc EXCEPT ![p] = "lock"]
  /\ UNCHANGED <<program, srvVars, ingVars, snapVars, total_nodes, active_connections,
                 total_packets, log, monVars>>

\* get_stats entering its block without waiting for the lock
StatsAcquireNoWait(p) ==
  /\ program = "server"
  /\ tpc[p] = "lock"
  /\ topology_lock' = TRUE
  /\ tpc' = [tpc EXCEPT ![p] = "nodes"]
  /\ UNCHANGED <<program, nodes, edges, ingVars, snapVars, tnow, total_nodes, active_connections,
                 total_packets, log, monVars>>

\* server.py:79
StatsAcquire(p) ==
  /\ program = "server"
  /\ tpc[p] = "lock"
  /\ topology_lock = FALSE
  /\ topology_lock' = TRUE
  /\ tpc' = [tpc EXCEPT ![p] = "nodes"]
  /\ UNCHANGED <<program, nodes, edges, ingVars, snapVars, tnow, total_nodes, active_connections,
                 total_packets, log, monVars>>

\* get_stats counting only the nodes inside the staleness window
StatsNodesActiveOnly(p) ==
  /\ program = "server"
  /\ tpc[p] = "nodes"
  /\ total_nodes' = [total_nodes EXCEPT ![p] =
       Cardinality({h \in DOMAIN nodes : IsActive(tnow[p], nodes[h].last_seen)})]
  /\ tpc' = [tpc EXCEPT ![p] = "conns"]
  /\ UNCHANGED <<program, srvVars, ingVars, snapVars, tnow, active_connections, total_packets,
                 log, monVars>>

\* server.py:80
StatsNodes(p) ==
  /\ program = "server"
  /\ tpc[p] = "nodes"
  /\ total_nodes' = [total_nodes EXCEPT ![p] = Cardinality(DOMAIN nodes)]
  /\ tpc' = [tpc EXCEPT ![p] = "conns"]
  /\ UNCHANGED <<program, srvVars, ingVars, snapVars, tnow, active_connections, total_packets,
                 log, monVars>>

RECURSIVE TouchAll(_, _)
\* every key of ks looked up through the defaultdict, a missing one inserted
TouchAll(es, ks) ==
  IF ks = {} THEN es
  ELSE LET k == CHOOSE x \in ks : TRUE IN TouchAll(EdgeGet(es, k), ks \ {k})

\* get_stats probing the edge of every pair of known hosts by subscript
StatsConnsProbing(p) ==
  /\ program = "server"
  /\ tpc[p] = "conns"
  /\ edges' = TouchAll(edges, (DOMAIN nodes) \X (DOMAIN nodes))
  /\ active_connections' = [active_connections EXCEPT ![p] =
       Cardinality({k \in DOMAIN edges' : IsActive(tnow[p], edges'[k].last_active)})]
  /\ tpc' = [tpc EXCEPT ![p] = "packets"]
  /\ UNCHANGED <<program, nodes, topology_lock, ingVars, snapVars, tnow, total_nodes,
                 total_packets, log, monVars>>

\* server.py:81; an exception leaves the with block, releasing the lock
StatsConns(p) ==
  /\ program = "server"
  /\ tpc[p] = "conns"
  /\ \E raced \in Raced :
       IF raced \/ ~HaveKeys(edges, StatsEdgeKeys)
         THEN /\ tpc' = [tpc EXCEPT ![p] = "error"]
              /\ topology_lock' = FALSE
              /\ UNCHANGED active_connections
         ELSE /\ active_connections' = [active_connections EXCEPT ![p] =
                   Cardinality({k \in DOMAIN edges : IsActive(tnow[p], edges[k].last_active)})]
              /\ tpc' = [tpc EXCEPT ![p] = "packets"]
              /\ UNCHANGED topology_lock
  /\ UNCHANGED <<program, nodes, edges, ingVars, snapVars, tnow, total_nodes, total_packets,
                 log, monVars>>

\* server.py:82; an exception leaves the with block, releasing the lock
StatsPackets(p) ==
  /\ program = "server"
  /\ tpc[p] = "packets"
  /\ \E raced \in Raced :
       IF raced \/ ~HaveKeys(nodes, StatsNodeKeys)
         THEN /\ tpc' = [tpc EXCEPT ![p] = "error"]
              /\ topology_lock' = FALSE
              /\ UNCHANGED total_packets
         ELSE /\ total_packets' = [total_packets EXCEPT ![p] = SumPackets(nodes, DOMAIN nodes)]
              /\ tpc' = [tpc EXCEPT ![p] = "unlock"]
              /\ UNCHANGED topology_lock
  /\ UNCHANGED <<program, nodes, edges, ingVars, snapVars, tnow, total_nodes, active_connections,
                 log, monVars>>

\* server.py:79, end of the with block
StatsRelease(p) ==
  /\ program = "server"
  /\ tpc[p] = "unlock"
  /\ topology_lock' = FALSE
  /\ tpc' = [tpc EXCEPT ![p] = "return"]
  /\ UNCHANGED <<program, nodes, edges, ingVars, snapVars, tnow, total_nodes, active_connections,
                 total_packets, log, monVars>>

\* server.py:83, the response (or the exception, as a 500) is handed to the client
StatsReturn(p) ==
  /\ program = "server"
  /\ tpc[p] \in {"return", "error"}
  /\ tpc' = [tpc EXCEPT ![p] = "idle"]
  /\ tnow' = [tnow EXCEPT ![p] = NoTime]
  /\ total_nodes' = [total_nodes EXCEPT ![p] = 0]
  /\ active_connections' = [active_connections EXCEPT ![p] = 0]
  /\ total_packets' = [total_packets EXCEPT ![p] = 0]
  /\ UNCHANGED <<program, srvVars, ingVars, snapVars, log, monVars>>

\* ------------------------------------------- monitor.py aggregate_packet
\* monitor.py:28, a caller enters aggregate_packet
MonitorCall ==
  /\ program = "monitor"
  /\ m_pc = "idle"
  /\ \E pk \in Packets : m_packet' = pk
  /\ m_pc' = "lock"
  /\ UNCHANGED <<program, srvVars, ingVars, snapVars, statVars, log, m_nodes, m_edges, m_lock>>

\* monitor.py:29-30
MonitorAcquire ==
  /\ program = "monitor"
  /\ m_pc = "lock"
  /\ m_lock = FALSE
  /\ m_lock' = TRUE
  /\ m_pc' = "now"
  /\ UNCHANGED <<program, srvVars, ingVars, snapVars, statVars, log, m_nodes, m_edges, m_packet>>

\* monitor.py:31, now = time.time(): the module never imports time (lines 1-4),
\* so the name lookup raises NameError; the with block releases the lock on the
\* way out and lines 34-43 are not executed.
MonitorNow ==
  /\ program = "monitor"
  /\ m_pc = "now"
  /\ m_lock' = FALSE
  /\ m_pc' = "raised"
  /\ UNCHANGED <<program, srvVars, ingVars, snapVars, statVars, log, m_nodes, m_edges, m_packet>>

\* the NameError has reached the caller; the call is over
MonitorEnd ==
  /\ program = "monitor"
  /\ m_pc = "raised"
  /\ m_pc' = "idle"
  /\ m_packet' = NoPacket
  /\ UNCHANGED <<program, srvVars, ingVars, snapVars, statVars, log, m_nodes, m_edges, m_lock>>

\* ------------------------------------------------------------ the system
\* server.py:13-17, monitor.py:7-11
Init ==
  /\ program \in {"server", "monitor"}
  /\ nodes = <<>>
  /\ edges = <<>>
  /\ topology_lock = FALSE
  /\ ipc = [p \in Ingesters |-> "idle"]
  /\ packet = [p \in Ingesters |-> NoPacket]
  /\ spc = [p \in Snapshotters |-> "idle"]
  /\ snow = [p \in Snapshotters |-> NoTime]
  /\ active_nodes = [p \in Snapshotters |-> {}]
  /\ active_edges = [p \in Snapshotters |-> {}]
  /\ startLen = [p \in Snapshotters |-> 0]
  /\ tpc = [p \in StatsCallers |-> "idle"]
  /\ tnow = [p \in StatsCallers |-> NoTime]
  /\ total_nodes = [p \in StatsCallers |-> 0]
  /\ active_connections = [p \in StatsCallers |-> 0]
  /\ total_packets = [p \in StatsCallers |-> 0]
  /\ log = <<>>
  /\ m_nodes = <<>>
  /\ m_edges = <<>>
  /\ m_lock = FALSE
  /\ m_pc = "idle"
  /\ m_packet = NoPacket

Next ==
  \/ \E p \in Ingesters : IngestCall(p)
  \/ \E p \in Ingesters : IngestAcquire(p)
  \/ \E p \in Ingesters : IngestRead(p)
  \/ \E p \in Ingesters : IngestFailed(p)
  \/ \E p \in Ingesters : IngestSrc(p)
  \/ \E p \in Ingesters : IngestDst(p)
  \/ \E p \in Ingesters : IngestEdgeCount(p)
  \/ \E p \in Ingesters : IngestEdgeActive(p)
  \/ \E p \in Ingesters : IngestRelease(p)
  \/ \E p \in Snapshotters : SnapCall(p)
  \/ \E p \in Snapshotters : SnapAcquire(p)
  \/ \E p \in Snapshotters : SnapNodes(p)
  \/ \E p \in Snapshotters : SnapEdges(p)
  \/ \E p \in Snapshotters : SnapRelease(p)
  \/ \E p \in Snapshotters : SnapReturn(p)
  \/ \E p \in StatsCallers : StatsCall(p)
  \/ \E p \in StatsCallers : StatsAcquire(p)
  \/ \E p \in StatsCallers : StatsNodes(p)
  \/ \E p \in StatsCallers : StatsConns(p)
  \/ \E p \in StatsCallers : StatsPackets(p)
  \/ \E p \in StatsCallers : StatsRelease(p)
  \/ \E p \in StatsCallers : StatsReturn(p)
  \/ MonitorCall
  \/ MonitorAcquire
  \/ MonitorNow
  \/ MonitorEnd

Spec == Init /\ [][Next]_vars

\* the steps of a started aggregate_packet call that wait for nothing
IngestRun(p) ==
  \/ IngestRead(p)
  \/ IngestFailed(p)
  \/ IngestSrc(p)
  \/ IngestDst(p)
  \/ IngestEdgeCount(p)
  \/ IngestEdgeActive(p)
  \/ IngestRelease(p)

\* the steps of a started get_topology call that wait for nothing
SnapRun(p) == SnapNodes(p) \/ SnapEdges(p) \/ SnapRelease(p) \/ SnapReturn(p)

\* the steps of a started get_stats call that wait for nothing
StatsRun(p) ==
  StatsNodes(p) \/ StatsConns(p) \/ StatsPackets(p) \/ StatsRelease(p) \/ StatsReturn(p)

\* the steps of a started call of monitor.py
MonitorRun == MonitorAcquire \/ MonitorNow \/ MonitorEnd

\* Fair scheduling: a thread that can run is eventually run (weak fairness on
\* the steps that wait for nothing), and a thread blocked in acquire() gets the
\* lock if the lock is free again and again (strong fairness on the acquire
\* steps). threading.Lock leaves open which waiter proceeds at a release, so
\* weak fairness on the acquire steps would let one waiter lose every race.
\* Nothing obliges a client to start a call: the Call steps are not fair.
Fairness ==
  /\ \A p \in Ingesters : WF_vars(IngestRun(p)) /\ SF_vars(IngestAcquire(p))
  /\ \A p \in Snapshotters : WF_vars(SnapRun(p)) /\ SF_vars(SnapAcquire(p))
  /\ \A p \in StatsCallers : WF_vars(StatsRun(p)) /\ SF_vars(StatsAcquire(p))
  /\ WF_vars(MonitorRun)

\* the packets and the clock readings of the runs whose termination is checked:
\* whether a call completes depends on the packet only through HasKeys
LivePackets == {pk \in Packets : pk.timestamp = 0} \cup Incomplete
LiveTimes == {0}

\* Next with the inputs of the calls drawn from LivePackets and LiveTimes
FairNext ==
  \/ \E p \in Ingesters : IngestCall(p) /\ packet'[p] \in LivePackets
  \/ \E p \in Ingesters : IngestAcquire(p)
  \/ \E p \in Ingesters : IngestRead(p)
  \/ \E p \in Ingesters : IngestFailed(p)
  \/ \E p \in Ingesters : IngestSrc(p)
  \/ \E p \in Ingesters : IngestDst(p)
  \/ \E p \in Ingesters : IngestEdgeCount(p)
  \/ \E p \in Ingesters : IngestEdgeActive(p)
  \/ \E p \in Ingesters : IngestRelease(p)
  \/ \E p \in Snapshotters : SnapCall(p) /\ snow'[p] \in LiveTimes
  \/ \E p \in Snapshotters : SnapAcquire(p)
  \/ \E p \in Snapshotters : SnapNodes(p)
  \/ \E p \in Snapshotters : SnapEdges(p)
  \/ \E p \in Snapshotters : SnapRelease(p)
  \/ \E p \in Snapshotters : SnapReturn(p)
  \/ \E p \in StatsCallers : StatsCall(p) /\ tnow'[p] \in LiveTimes
  \/ \E p \in StatsCallers : StatsAcquire(p)
  \/ \E p \in StatsCallers : StatsNodes(p)
  \/ \E p \in StatsCallers : StatsConns(p)
  \/ \E p \in StatsCallers : StatsPackets(p)
  \/ \E p \in StatsCallers : StatsRelease(p)
  \/ \E p \in StatsCallers : StatsReturn(p)
  \/ MonitorCall
  \/ MonitorAcquire
  \/ MonitorNow
  \/ MonitorEnd

FairSpec == Init /\ [][FairNext]_vars /\ Fairness

TypeOK ==
  /\ program \in {"server", "monitor"}
  /\ DOMAIN nodes \subseteq Hosts
  /\ DOMAIN edges \subseteq Hosts \X Hosts
  /\ topology_lock \in BOOLEAN
  /\ Len(log) <= MaxIngests

\* ------------------------------------------------- measures of a history
\* positions of the packets of s that name host h as source or as destination
Referencing(h, s) == {i \in 1..Len(s) : s[i].src_ip = h \/ s[i].dst_ip = h}

\* occurrences of h in s, a source and a destination occurrence counted apiece
Refs(h, s) ==
  Cardinality({i \in 1..Len(s) : s[i].src_ip = h})
    + Cardinality({i \in 1..Len(s) : s[i].dst_ip = h})

\* positions of the packets of s with the ordered pair k
Carrying(k, s) == {i \in 1..Len(s) : s[i].src_ip = k[1] /\ s[i].dst_ip = k[2]}

MinOf(S) == CHOOSE x \in S : \A y \in S : x <= y
MaxOf(S) == CHOOSE x \in S : \A y \in S : x >= y

\* the node mapping in which exactly the packets of s are applied, each in full
AppliedNodes(s) ==
  [h \in {x \in Hosts : Referencing(x, s) # {}} |->
     [first_seen |-> s[MinOf(Referencing(h, s))].timestamp,
      last_seen |-> s[MaxOf(Referencing(h, s))].timestamp,
      packet_count |-> Refs(h, s)]]

\* the edge mapping in which exactly the packets of s are applied, each in full
AppliedEdges(s) ==
  [k \in {x \in Hosts \X Hosts : Carrying(x, s) # {}} |->
     [count |-> Cardinality(Carrying(k, s)),
      last_active |-> s[MaxOf(Carrying(k, s))].timestamp]]

\* the staleness filter of window w at time now, over a node mapping
FilterNodes(ns, now, w) ==
  {[ip |-> h, packets |-> ns[h].packet_count] :
     h \in {x \in DOMAIN ns : now - ns[x].last_seen < w}}

\* the staleness filter of window w at time now, over an edge mapping
FilterEdges(es, now, w) ==
  {[source |-> k[1], target |-> k[2], weight |-> es[k].count] :
     k \in {x \in DOMAIN es : now - es[x].last_active < w}}

Prefix(s, k) == SubSeq(s, 1, k)

IngestInside ==
  {p \in Ingesters : ipc[p] \in {"read", "src", "dst", "count", "active", "unlock"}}

\* the calls that have read their packet and are applying it
IngestApplying == {p \in Ingesters : ipc[p] \in {"src", "dst", "count", "active", "unlock"}}
SnapInside == {p \in Snapshotters : spc[p] \in {"nodes", "edges", "unlock"}}
StatsInside == {p \in StatsCallers : tpc[p] \in {"nodes", "conns", "packets", "unlock"}}

\* ------------------------------------------------------------------ C1
\* C1: whatever the interleaving of aggregate_packet and get_topology calls, the
\* lists a get_topology call has built equal the staleness filter of a topology
\* in which a prefix of the completed aggregate_packet calls is applied in full
\* and no other call is applied at all; in particular the node counts and the
\* edge counts the snapshot shows come from the same set of packets.
C1_SnapshotAtomic ==
  \A p \in Snapshotters :
    spc[p] \in {"unlock", "return"} =>
      \E k \in 0..Len(log) :
        /\ active_nodes[p] = FilterNodes(AppliedNodes(Prefix(log, k)), snow[p], STALE_THRESHOLD)
        /\ active_edges[p] = FilterEdges(AppliedEdges(Prefix(log, k)), snow[p], STALE_THRESHOLD)

\* C1 witness: a snapshot that lists an edge is held by its caller while a
\* concurrent aggregate_packet call has applied its node updates but not yet
\* its edge update, an earlier call having completed after the snapshot began.
C1_Witness ==
  \E p \in Snapshotters, q \in Ingesters :
    /\ spc[p] = "return"
    /\ active_edges[p] # {}
    /\ active_nodes[p] # {}
    /\ startLen[p] < Len(log)
    /\ ipc[q] = "count"

\* ------------------------------------------------------------------ C10
\* C10: at most one aggregate_packet, get_topology or get_stats call is inside
\* its with topology_lock block, and the lock is held exactly when one is; so no
\* aggregate_packet call is between its node updates and its edge update while
\* a reader is reading the mappings.
C10_MutualExclusion ==
  /\ Cardinality(IngestInside) + Cardinality(SnapInside) + Cardinality(StatsInside) <= 1
  /\ topology_lock <=>
       (Cardinality(IngestInside) + Cardinality(SnapInside) + Cardinality(StatsInside) = 1)

\* C10 witness: an aggregate_packet call stands between its node updates and its
\* edge update while another aggregate_packet call, a get_topology call and a
\* get_stats call all wait for the lock.
C10_Witness ==
  \E p, q \in Ingesters, r \in Snapshotters, t \in StatsCallers :
    /\ ipc[p] = "count"
    /\ ipc[q] = "lock"
    /\ spc[r] = "lock"
    /\ tpc[t] = "lock"

\* ------------------------------------------------------------------ C2
NoIngestInside == IngestInside = {}

PacketCountOf(h) == IF h \in DOMAIN nodes THEN nodes[h].packet_count ELSE 0

\* C2 as stated: when every started aggregate_packet call has completed,
\* packet_count(h) is the number of completed events that reference h, a
\* self-loop event being one event.
C2_CountIsEventsReferencing ==
  NoIngestInside =>
    \A h \in Hosts : PacketCountOf(h) = Cardinality(Referencing(h, log))

\* C2 amended: when every started aggregate_packet call has completed,
\* packet_count(h) is the number of occurrences of h in the completed events:
\* the events with h as source plus the events with h as destination, so that
\* a self-loop event on h counts twice.
C2_CountIsOccurrences ==
  NoIngestInside =>
    \A h \in Hosts : PacketCountOf(h) = Refs(h, log)

\* C2 witness: a self-loop event and another event have both completed, and
\* some host has more occurrences than events referencing it.
C2_Witness ==
  /\ NoIngestInside
  /\ Len(log) = 2
  /\ \E h \in Hosts : /\ Refs(h, log) = 3
                      /\ Cardinality(Referencing(h, log)) = 2
                      /\ PacketCountOf(h) = 3

\* ------------------------------------------------------------------ C3
\* C3: the lists a get_topology call has built, while it still holds the lock,
\* hold exactly the (ip, packet_count) of the nodes with now - last_seen below
\* STALE_THRESHOLD and the (source, target, count) of the edges with
\* now - last_active below STALE_THRESHOLD; an entry exactly STALE_THRESHOLD
\* old is left out.
C3_SnapshotIsFilter ==
  \A p \in Snapshotters :
    spc[p] = "unlock" =>
      /\ \A h \in Hosts, c \in 0..(2 * MaxIngests) :
           [ip |-> h, packets |-> c] \in active_nodes[p]
             <=> /\ h \in DOMAIN nodes
                 /\ snow[p] - nodes[h].last_seen < STALE_THRESHOLD
                 /\ c = nodes[h].packet_count
      /\ \A k \in Hosts \X Hosts, c \in 0..MaxIngests :
           [source |-> k[1], target |-> k[2], weight |-> c] \in active_edges[p]
             <=> /\ k \in DOMAIN edges
                 /\ snow[p] - edges[k].last_active < STALE_THRESHOLD
                 /\ c = edges[k].count
      /\ \A n \in active_nodes[p] : n.ip \in Hosts /\ n.packets \in 0..(2 * MaxIngests)
      /\ \A e \in active_edges[p] :
           <<e.source, e.target>> \in Hosts \X Hosts /\ e.weight \in 0..MaxIngests
      /\ \A h \in DOMAIN nodes :
           snow[p] - nodes[h].last_seen = STALE_THRESHOLD
             => \A n \in active_nodes[p] : n.ip # h
      /\ \A k \in DOMAIN edges :
           snow[p] - edges[k].last_active = STALE_THRESHOLD
             => \A e \in active_edges[p] : <<e.source, e.target>> # k

\* C3 witness: a snapshot built over a topology with a node and an edge exactly
\* STALE_THRESHOLD old, which it leaves out, and a fresher node and edge, which
\* it lists.
C3_Witness ==
  \E p \in Snapshotters :
    /\ spc[p] = "unlock"
    /\ \E h \in DOMAIN nodes : /\ snow[p] - nodes[h].last_seen = STALE_THRESHOLD
                               /\ \A n \in active_nodes[p] : n.ip # h
    /\ \E k \in DOMAIN edges : /\ snow[p] - edges[k].last_active = STALE_THRESHOLD
                               /\ \A e \in active_edges[p] : <<e.source, e.target>> # k
    /\ active_nodes[p] # {}
    /\ active_edges[p] # {}

\* ------------------------------------------------------------------ C4
\* C4: a step of a get_topology or get_stats call leaves the node mapping and
\* the edge mapping as they were, keys and values: no stale entry is deleted
\* and no edge entry is created by a read.
C4_ReadsArePure ==
  [][((\E p \in Snapshotters : spc'[p] # spc[p]) \/ (\E p \in StatsCallers : tpc'[p] # tpc[p]))
      => (nodes' = nodes /\ edges' = edges)]_vars

\* C4 witness: a get_topology call and a get_stats call have both read a
\* topology that holds a stale node and a stale edge and have left them out
\* of what they report, and both entries are still in the mappings.
C4_Witness ==
  \E p \in Snapshotters, t \in StatsCallers :
    /\ spc[p] = "return"
    /\ tpc[t] = "return"
    /\ topology_lock = FALSE
    /\ NoIngestInside
    /\ \E h \in DOMAIN nodes : /\ snow[p] - nodes[h].last_seen >= STALE_THRESHOLD
                               /\ \A n \in active_nodes[p] : n.ip # h
    /\ \E k \in DOMAIN edges : /\ tnow[t] - edges[k].last_active >= STALE_THRESHOLD
                               /\ active_connections[t] < Cardinality(DOMAIN edges)

\* ------------------------------------------------------------------ C5
\* C5: once a node exists, no step removes it, changes its first_seen or
\* lowers its packet_count.
C5_NodeIsKept ==
  [][\A h \in DOMAIN nodes :
       /\ h \in DOMAIN nodes'
       /\ nodes'[h].first_seen = nodes[h].first_seen
       /\ nodes'[h].packet_count >= nodes[h].packet_count]_vars

\* C5 witness: a snapshot that began when h was already a node left h out as
\* stale; h is now within the window of that snapshot's now, so a later
\* aggregate_packet call has touched it, and h still has the first_seen of its
\* first event and the packet_count of all its occurrences.
C5_Witness ==
  \E p \in Snapshotters, h \in Hosts :
    /\ spc[p] = "return"
    /\ NoIngestInside
    /\ Referencing(h, Prefix(log, startLen[p])) # {}
    /\ \A n \in active_nodes[p] : n.ip # h
    /\ h \in DOMAIN nodes
    /\ snow[p] - nodes[h].last_seen < STALE_THRESHOLD
    /\ nodes[h].first_seen = log[MinOf(Referencing(h, log))].timestamp
    /\ nodes[h].first_seen # nodes[h].last_seen
    /\ nodes[h].packet_count > Refs(h, Prefix(log, startLen[p]))

\* ------------------------------------------------------------------ C6
EdgeView(es, k) ==
  IF k \in DOMAIN es THEN <<TRUE, es[k].count, es[k].last_active>> ELSE <<FALSE, 0, 0>>

\* C6: no step of an aggregate_packet call with packet (A, B, t), A # B,
\* changes the edge (B, A): it exists after the step iff it did before, with
\* the same count and last_active.
C6_ReverseEdgeUntouched ==
  [][\A p \in Ingesters :
       (ipc[p] # "idle" /\ ipc'[p] # ipc[p] /\ packet[p].src_ip # packet[p].dst_ip)
         => EdgeView(edges', <<packet[p].dst_ip, packet[p].src_ip>>)
              = EdgeView(edges, <<packet[p].dst_ip, packet[p].src_ip>>)]_vars

\* C6 witness: after (A, B, t) and (B, A, u) have both been ingested the two
\* edges exist, each with its own count of 1 and its own last_active.
C6_Witness ==
  \E a, b \in Hosts :
    /\ a # b
    /\ NoIngestInside
    /\ <<a, b>> \in DOMAIN edges
    /\ <<b, a>> \in DOMAIN edges
    /\ edges[<<a, b>>].count = 1
    /\ edges[<<b, a>>].count = 1
    /\ edges[<<a, b>>].last_active # edges[<<b, a>>].last_active

\* ------------------------------------------------------------------ C7
\* the packets applied so far, in the order their calls took the lock
AppliedSeq ==
  IF IngestApplying = {} THEN log
  ELSE Append(log, packet[CHOOSE p \in IngestApplying : TRUE])

NonDecreasing(s) == \A i \in 1..(Len(s) - 1) : s[i].timestamp <= s[i + 1].timestamp

\* C7 as stated: whatever the order of the timestamps, every node has
\* first_seen <= last_seen.
C7_FirstSeenLeLastSeen ==
  \A h \in DOMAIN nodes : nodes[h].first_seen <= nodes[h].last_seen

\* C7 amended: while the timestamps of the applied events are non-decreasing in
\* the order the events are applied, every node has first_seen <= last_seen.
C7_FirstSeenLeLastSeenInOrder ==
  NonDecreasing(AppliedSeq) =>
    \A h \in DOMAIN nodes : nodes[h].first_seen <= nodes[h].last_seen

\* C7 witness: two events with increasing timestamps have been applied to
\* the same host, which has first_seen < last_seen.
C7_Witness ==
  /\ Len(log) = 2
  /\ NonDecreasing(AppliedSeq)
  /\ log[1].timestamp < log[2].timestamp
  /\ \E h \in DOMAIN nodes : nodes[h].first_seen < nodes[h].last_seen

\* ------------------------------------------------------------------ C8
\* the timestamp fields of topology ns, es carry the timestamp of packet pk
StampedWith(ns, es, pk) ==
  /\ pk.src_ip \in DOMAIN ns
  /\ pk.dst_ip \in DOMAIN ns
  /\ <<pk.src_ip, pk.dst_ip>> \in DOMAIN es
  /\ ns[pk.src_ip].last_seen = pk.timestamp
  /\ ns[pk.dst_ip].last_seen = pk.timestamp
  /\ es[<<pk.src_ip, pk.dst_ip>>].last_active = pk.timestamp

\* C8 restricted to server.py: when an aggregate_packet call of server.py has
\* run its last statement, last_seen of both hosts and last_active of the edge
\* are the packet's timestamp, larger or smaller than what they held.
C8_ServerLastWriteWins ==
  \A p \in Ingesters : ipc[p] = "unlock" => StampedWith(nodes, edges, packet[p])

\* C8: when an aggregate_packet call is over, in server.py or in monitor.py,
\* last_seen of both hosts and last_active of the edge are the timestamp of the
\* packet it was called with.
C8_LastWriteWins ==
  /\ \A p \in Ingesters : ipc[p] = "unlock" => StampedWith(nodes, edges, packet[p])
  /\ m_pc = "raised" => StampedWith(m_nodes, m_edges, m_packet)

\* C8 witness (server.py): a call has overwritten a larger last_seen and a
\* larger last_active with its own smaller timestamp.
C8_ServerWitness ==
  \E p \in Ingesters :
    /\ ipc[p] = "unlock"
    /\ Len(log) = 1
    /\ log[1].src_ip = packet[p].src_ip
    /\ log[1].dst_ip = packet[p].dst_ip
    /\ log[1].timestamp > packet[p].timestamp

\* ------------------------------------------------------------------ C9
\* C9: the lists a get_topology call has built equal the staleness filter of a
\* topology in which at least every aggregate_packet call that completed
\* before the get_topology call began is applied; so each packets and weight
\* value listed includes the increments of those calls.
C9_SnapshotSeesCompleted ==
  \A p \in Snapshotters :
    spc[p] \in {"unlock", "return"} =>
      /\ \E k \in startLen[p]..Len(log) :
           /\ active_nodes[p]
                = FilterNodes(AppliedNodes(Prefix(log, k)), snow[p], STALE_THRESHOLD)
           /\ active_edges[p]
                = FilterEdges(AppliedEdges(Prefix(log, k)), snow[p], STALE_THRESHOLD)
      /\ \A n \in active_nodes[p] : n.packets >= Refs(n.ip, Prefix(log, startLen[p]))
      /\ \A e \in active_edges[p] :
           e.weight >= Cardinality(Carrying(<<e.source, e.target>>, Prefix(log, startLen[p])))

\* C9 witness: a snapshot that began after two calls on the same pair had
\* completed lists the edge with weight 2.
C9_Witness ==
  \E p \in Snapshotters :
    /\ spc[p] = "return"
    /\ startLen[p] = 2
    /\ \E e \in active_edges[p] : e.weight = 2
    /\ \E n \in active_nodes[p] : n.packets >= 2

\* ------------------------------------------------------------------ C11
RECURSIVE SumOf(_, _)
\* the sum of f[x] over the x of S
SumOf(f, S) ==
  IF S = {} THEN 0
  ELSE LET y == CHOOSE z \in S : TRUE IN f[y] + SumOf(f, S \ {y})

\* C11: what a get_stats call has computed, while it still holds the lock, is
\* total_nodes = the number of node entries, stale ones included,
\* total_packets = the sum of packet_count over all node entries, stale ones
\* included, and active_connections = the number of edges a snapshot of the
\* same state with the same now lists.
C11_StatsValues ==
  \A t \in StatsCallers :
    tpc[t] = "unlock" =>
      /\ total_nodes[t] = Cardinality({h \in Hosts : h \in DOMAIN nodes})
      /\ total_packets[t] = SumOf([h \in Hosts |-> PacketCountOf(h)], Hosts)
      /\ active_connections[t]
           = Cardinality(FilterEdges(edges, tnow[t], STALE_THRESHOLD))

\* C11 witness: get_stats over a topology with a stale node and a stale edge
\* reports both nodes, all four packet counts and the one active edge.
C11_Witness ==
  \E t \in StatsCallers :
    /\ tpc[t] = "unlock"
    /\ \E h \in DOMAIN nodes : tnow[t] - nodes[h].last_seen >= STALE_THRESHOLD
    /\ \E k \in DOMAIN edges : tnow[t] - edges[k].last_active >= STALE_THRESHOLD
    /\ total_nodes[t] = 2
    /\ total_packets[t] = 4
    /\ active_connections[t] = 1

\* ------------------------------------------------------------------ C12
\* C12: no step removes a key from the node mapping or from the edge mapping.
C12_KeysOnlyGrow ==
  [][(DOMAIN nodes \subseteq DOMAIN nodes') /\ (DOMAIN edges \subseteq DOMAIN edges')]_vars

\* C12 witness: both mappings hold two keys, all of them stale for a snapshot
\* and a stats call that have just read them.
C12_Witness ==
  \E p \in Snapshotters, t \in StatsCallers :
    /\ spc[p] = "return"
    /\ tpc[t] = "return"
    /\ active_nodes[p] = {}
    /\ active_edges[p] = {}
    /\ active_connections[t] = 0
    /\ Len(log) = 2
    /\ \A i \in 1..2 : snow[p] - log[i].timestamp >= STALE_THRESHOLD
    /\ \A i \in 1..2 : tnow[t] - log[i].timestamp >= STALE_THRESHOLD
    /\ Cardinality(DOMAIN nodes) = 2
    /\ Cardinality(DOMAIN edges) = 2

\* ------------------------------------------------------------------ C13
\* C13: while no aggregate_packet call is inside its block, a host has a node
\* entry iff a completed event names it as source or destination, and the
\* total_nodes a get_stats call has computed counts exactly those hosts.
C13_LazyCreation ==
  /\ NoIngestInside => \A h \in Hosts : h \in DOMAIN nodes <=> Referencing(h, log) # {}
  /\ \A t \in StatsCallers :
       tpc[t] = "unlock" =>
         total_nodes[t] = Cardinality({h \in Hosts : Referencing(h, log) # {}})

\* C13 witness: one host has been referenced and the other never; get_stats
\* reports total_nodes = 1.
C13_Witness ==
  \E t \in StatsCallers, h \in Hosts :
    /\ tpc[t] = "unlock"
    /\ Len(log) = 2
    /\ Referencing(h, log) = {}
    /\ h \notin DOMAIN nodes
    /\ total_nodes[t] = 1

\* ------------------------------------------------------------------ C14
EdgeCountOf(k) == IF k \in DOMAIN edges THEN edges[k].count ELSE 0

\* C14: when an aggregate_packet call with a self-loop packet (A, A, t) has
\* run its last statement, packet_count(A) is 2 more and count(A, A) is 1
\* more than the completed calls had left them (0 for an absent entry).
C14_SelfLoop ==
  \A p \in Ingesters :
    (ipc[p] = "unlock" /\ packet[p].src_ip = packet[p].dst_ip) =>
      LET h == packet[p].src_ip IN
        /\ h \in DOMAIN nodes
        /\ <<h, h>> \in DOMAIN edges
        /\ nodes[h].packet_count = Refs(h, log) + 2
        /\ edges[<<h, h>>].count = Cardinality(Carrying(<<h, h>>, log)) + 1

\* C14 witness: a self-loop call on a host never seen before has created the
\* node with packet_count 2 and the edge with count 1.
C14_Witness ==
  \E p \in Ingesters :
    /\ ipc[p] = "unlock"
    /\ packet[p].src_ip = packet[p].dst_ip
    /\ Len(log) = 1
    /\ Referencing(packet[p].src_ip, log) = {}
    /\ nodes[packet[p].src_ip].packet_count = 2
    /\ edges[<<packet[p].src_ip, packet[p].src_ip>>].count = 1

\* ------------------------------------------------------------------ C15
\* C15: while no aggregate_packet call is inside its block, an edge entry
\* exists for (s, d) iff a completed event has exactly that ordered pair, and
\* its count is the number of such events, so at least 1.
C15_EdgeCountIsEvents ==
  NoIngestInside =>
    \A k \in Hosts \X Hosts :
      /\ k \in DOMAIN edges <=> Carrying(k, log) # {}
      /\ k \in DOMAIN edges =>
           (edges[k].count = Cardinality(Carrying(k, log)) /\ edges[k].count >= 1)

\* C15 witness: two events with the same ordered pair have completed; that
\* edge has count 2 and the reverse pair has no entry.
C15_Witness ==
  \E a, b \in Hosts :
    /\ a # b
    /\ NoIngestInside
    /\ <<a, b>> \in DOMAIN edges
    /\ edges[<<a, b>>].count = 2
    /\ <<b, a>> \notin DOMAIN edges

\* ------------------------------------------------------------------ C19
\* C19: while the lock is free, packet_count(h) is the sum of count over the
\* edges (h, x) plus the sum of count over the edges (x, h), the edge (h, h)
\* entering both sums; the node packet_counts add up to twice the edge counts.
C19_NodeCountsMatchEdgeCounts ==
  topology_lock = FALSE =>
    /\ \A h \in Hosts :
         PacketCountOf(h)
           = SumOf([x \in Hosts |-> EdgeCountOf(<<h, x>>)], Hosts)
               + SumOf([x \in Hosts |-> EdgeCountOf(<<x, h>>)], Hosts)
    /\ SumOf([h \in Hosts |-> PacketCountOf(h)], Hosts)
         = 2 * SumOf([k \in Hosts \X Hosts |-> EdgeCountOf(k)], Hosts \X Hosts)

\* C19 witness: with the lock free, a self-loop edge and an edge between two
\* hosts exist, and the self-loop's host has packet_count 3.
C19_Witness ==
  \E a, b \in Hosts :
    /\ a # b
    /\ topology_lock = FALSE
    /\ NoIngestInside
    /\ <<a, a>> \in DOMAIN edges
    /\ (<<a, b>> \in DOMAIN edges \/ <<b, a>> \in DOMAIN edges)
    /\ nodes[a].packet_count = 3
    /\ nodes[b].packet_count = 1

\* ------------------------------------------------------------------ C20
\* every edge listed has its source and its target among the nodes listed
EdgesPointAtListedNodes(p) ==
  \A e \in active_edges[p] :
    /\ \E n \in active_nodes[p] : n.ip = e.source
    /\ \E n \in active_nodes[p] : n.ip = e.target

\* C20: while the timestamps of the applied events are non-decreasing in the
\* order the events are applied, every edge a get_topology call lists has its
\* source and its target among the nodes the same call lists.
C20_ActiveEdgesHaveActiveNodes ==
  \A p \in Snapshotters :
    (spc[p] \in {"unlock", "return"} /\ NonDecreasing(AppliedSeq))
      => EdgesPointAtListedNodes(p)

\* C20 witness: after two events with increasing timestamps a snapshot lists
\* the fresh edge with both its hosts and leaves the stale edge out.
C20_Witness ==
  \E p \in Snapshotters :
    /\ spc[p] = "unlock"
    /\ Len(log) = 2
    /\ log[1].timestamp < log[2].timestamp
    /\ Cardinality(DOMAIN edges) = 2
    /\ Cardinality(active_edges[p]) = 1
    /\ Cardinality(active_nodes[p]) = 2

\* C20 without its hypothesis: whatever the order of the timestamps, every
\* edge a get_topology call lists has its source and target listed.
C20_Unconditional ==
  \A p \in Snapshotters : spc[p] = "unlock" => EdgesPointAtListedNodes(p)

\* ------------------------------------------------------------------ C18
\* C18: an aggregate_packet call whose packet lacks a key has failed without
\* a trace: it does not hold the lock (the lock is held exactly when some call
\* is inside its block), and once no call is applying a packet the mappings
\* are those of the completed calls alone, which the failed call is not among.
C18_FailedCallLeavesNoTrace ==
  (\E p \in Ingesters : ipc[p] = "failed") =>
    /\ topology_lock <=>
         (Cardinality(IngestInside) + Cardinality(SnapInside) + Cardinality(StatsInside) = 1)
    /\ IngestApplying = {} =>
         (nodes = AppliedNodes(log) /\ edges = AppliedEdges(log))
    /\ \A i \in 1..Len(log) : HasKeys(log[i])

\* C18 witness: one call has failed on an incomplete packet; after it another
\* call took the lock and applied its packet in full to the still empty
\* topology, and a get_topology call waits for its turn.
C18_Witness ==
  \E p, q \in Ingesters, r \in Snapshotters :
    /\ ipc[p] = "failed"
    /\ ~HasKeys(packet[p])
    /\ ipc[q] = "unlock"
    /\ log = <<>>
    /\ StampedWith(nodes, edges, packet[q])
    /\ spc[r] = "lock"

\* ------------------------------------------------------------------ C16
\* C16: no get_topology or get_stats call ends in an exception, whatever the
\* topology; over the empty topology get_topology builds two empty lists and
\* get_stats computes total_nodes = 0, active_connections = 0 and
\* total_packets = 0.
C16_ReadsNeverFail ==
  /\ \A p \in Snapshotters : spc[p] # "error"
  /\ \A t \in StatsCallers : tpc[t] # "error"
  /\ \A p \in Snapshotters :
       (spc[p] = "unlock" /\ DOMAIN nodes = {} /\ DOMAIN edges = {})
         => (active_nodes[p] = {} /\ active_edges[p] = {})
  /\ \A t \in StatsCallers :
       (tpc[t] = "unlock" /\ DOMAIN nodes = {} /\ DOMAIN edges = {})
         => (total_nodes[t] = 0 /\ active_connections[t] = 0 /\ total_packets[t] = 0)

\* C16 witness: a get_topology call has returned from the empty topology and
\* a get_stats call has computed its three values over it; both went through
\* every read.
C16_Witness ==
  \E p \in Snapshotters, t \in StatsCallers :
    /\ spc[p] = "return"
    /\ tpc[t] = "unlock"
    /\ log = <<>>
    /\ DOMAIN nodes = {}
    /\ DOMAIN edges = {}
    /\ active_nodes[p] = {}
    /\ total_nodes[t] = 0

\* C16 witness of the populated case: get_stats and get_topology have both
\* read a topology of two nodes and two edges to the end.
C16_PopulatedWitness ==
  \E p \in Snapshotters, t \in StatsCallers :
    /\ spc[p] = "return"
    /\ tpc[t] = "unlock"
    /\ Cardinality(DOMAIN nodes) = 2
    /\ Cardinality(DOMAIN edges) = 2
    /\ total_packets[t] = 4

\* ------------------------------------------------------------------ C17
\* a held lock has a holder inside its with block, whose next step waits for
\* nothing: the calls in progress are never all blocked
HeldLockHasHolder ==
  topology_lock => (IngestInside \cup SnapInside \cup StatsInside # {})

====
